---- MODULE Spec2Model ----
(***************************************************************************)
(* Model of the GET /html route of mdconvwk (src/src/index.ts): one        *)
(* request runs through parameter check, URL validation, fetch,            *)
(* content-type gate, body read, size gate and Markdown conversion, and    *)
(* every failure is turned into a JSON error body by app.onError.          *)
(*                                                                         *)
(* Strings the code inspects (the url parameter, the upstream              *)
(* Content-Type) are sequences of lexemes, so that URL parsing and         *)
(* String.includes are computed and not assumed; Join renders them as the  *)
(* string the code sees.                                                   *)
(***************************************************************************)
EXTENDS Integers, Sequences, FiniteSets, TLC

VARIABLES pc, req, resp, body, markdown, raised, response, responses,
          fetchCalls, textCalls, aiCalls, aiInput

vars == <<pc, req, resp, body, markdown, raised, response, responses,
          fetchCalls, textCalls, aiCalls, aiInput>>

(***************************************************************************)
(* Bounds of the model.                                                    *)
(***************************************************************************)
MaxUrlLen == 3
MaxCtLen == 3
MaxMdLen == 2

(***************************************************************************)
(* Lexemes.                                                                *)
(***************************************************************************)
SlashSlash == "//"
Colon == ":"
WordTokens == {"https", "HTTP", "ftp", "example.com"}
ColonSlashSlash == "://"
\* The pieces a url parameter is put together from.
UrlTokens == WordTokens \cup {Colon, ColonSlashSlash}
\* The pieces a Content-Type value is put together from; one has upper-case
\* letters and one a character outside U+0020..U+007E (a tab).
CtTokens == {"text/", "html", "json", "; charset=UTF-8", ";\tcharset=utf-8"}

RECURSIVE SeqsUpTo(_, _)
SeqsUpTo(S, n) ==
  IF n = 0 THEN {<<>>}
  ELSE LET shorter == SeqsUpTo(S, n - 1)
       IN shorter \cup {Append(s, t) : s \in {x \in shorter : Len(x) = n - 1}, t \in S}

RECURSIVE Join(_)
Join(s) == IF s = <<>> THEN "" ELSE Head(s) \o Join(Tail(s))

\* String.prototype.toLowerCase on one lexeme (the URL parser lower-cases
\* scheme and host).
LowerToken(t) == IF t = "HTTP" THEN "http" ELSE t

RECURSIVE Lower(_)
Lower(s) == IF s = <<>> THEN "" ELSE LowerToken(Head(s)) \o Lower(Tail(s))

\* The lexemes of a url: "://" is ":" followed by "//".
RECURSIVE Lexemes(_)
Lexemes(u) ==
  IF u = <<>> THEN <<>>
  ELSE (IF Head(u) = ColonSlashSlash THEN <<Colon, SlashSlash>> ELSE <<Head(u)>>)
         \o Lexemes(Tail(u))

\* Number of leading word lexemes of s.
RECURSIVE LeadingWords(_)
LeadingWords(s) ==
  IF s = <<>> \/ Head(s) \notin WordTokens THEN 0 ELSE 1 + LeadingWords(Tail(s))

RECURSIVE SkipSlashes(_)
SkipSlashes(s) ==
  IF s # <<>> /\ Head(s) = SlashSlash THEN SkipSlashes(Tail(s)) ELSE s

\* The prefix of s before its first "//".
RECURSIVE UpToSlash(_)
UpToSlash(s) ==
  IF s = <<>> \/ Head(s) = SlashSlash THEN <<>>
  ELSE <<Head(s)>> \o UpToSlash(Tail(s))

SpecialSchemes == {"http", "https", "ftp"}

ParseFailure == [ok |-> FALSE, protocol |-> "", hostname |-> ""]

\* Host and port of an authority (the lexemes between the scheme's slashes
\* and the path): an empty host before ":" fails, a special scheme needs a
\* host, a port holds digits only (no lexeme is a digit, so it is empty).
ParseAuthority(scheme, auth) ==
  LET h == LeadingWords(auth)
      after == SubSeq(auth, h + 1, Len(auth))
  IN IF auth = <<>>
       THEN IF scheme \in SpecialSchemes THEN ParseFailure
            ELSE [ok |-> TRUE, protocol |-> scheme \o ":", hostname |-> ""]
     ELSE IF h = 0 THEN ParseFailure
     ELSE IF after \notin {<<>>, <<Colon>>} THEN ParseFailure
     ELSE [ok |-> TRUE, protocol |-> scheme \o ":",
           hostname |-> IF scheme \in SpecialSchemes
                          THEN Lower(SubSeq(auth, 1, h))
                          ELSE Join(SubSeq(auth, 1, h))]

\* new URL(urlString) without a base: a scheme followed by ":" is required;
\* a special scheme ignores any number of slashes before its authority; any
\* other scheme has an authority only after "//" and an opaque path
\* otherwise.
ParseURL(urlString) ==
  LET s == Lexemes(urlString)
      k == LeadingWords(s)
  IN IF k = 0 \/ k = Len(s) \/ s[k + 1] # Colon THEN ParseFailure
     ELSE LET scheme == Lower(SubSeq(s, 1, k))
              rest == SubSeq(s, k + 2, Len(s))
          IN IF scheme \in SpecialSchemes
               THEN ParseAuthority(scheme, UpToSlash(SkipSlashes(rest)))
             ELSE IF rest # <<>> /\ Head(rest) = SlashSlash
               THEN ParseAuthority(scheme, UpToSlash(Tail(rest)))
             ELSE [ok |-> TRUE, protocol |-> scheme \o ":", hostname |-> ""]

missingNullOnly(r) == ~r.hasUrl

\* !urlParam: searchParams.get gave null, or the empty string.
missing(r) == ~r.hasUrl \/ Join(r.url) = ""

isValidUrlAnyScheme(urlString) == ParseURL(urlString).ok

isValidUrl(urlString) ==
  LET url == ParseURL(urlString)
  IN url.ok /\ (url.protocol = "http:" \/ url.protocol = "https:")

(***************************************************************************)
(* Values exchanged with the collaborators.                                *)
(***************************************************************************)
NoString == "<none>"

\* Response.ok
Ok(r) == r.status >= 200 /\ r.status <= 299

\* Upstream status codes the Fetcher is made to answer with.
UpstreamStatuses == {200, 304, 404, 500, 999}
StatusTexts == {"Not Found", "Not Modified", "Internal Server Error"}

\* A Content-Type header: absent (Headers.get gives null) or a value.
ContentTypes ==
  {[present |-> FALSE, value |-> <<>>]}
    \cup {[present |-> TRUE, value |-> v] : v \in SeqsUpTo(CtTokens, MaxCtLen)}

\* The responses fetch resolves with. The handler reads the status text
\* only of a response that is not ok and the Content-Type only of one that
\* is, so the first vary in status text (with the header absent or
\* text/html) and the second in Content-Type.
FetchResponses ==
  [status : {st \in UpstreamStatuses : ~Ok([status |-> st])},
   statusText : StatusTexts,
   contentType : {[present |-> FALSE, value |-> <<>>],
                  [present |-> TRUE, value |-> <<"text/", "html">>]}]
    \cup [status : {st \in UpstreamStatuses : Ok([status |-> st])},
          statusText : {"OK"},
          contentType : ContentTypes]

NoResp == [status |-> 0, statusText |-> NoString,
           contentType |-> [present |-> FALSE, value |-> <<>>]]

MaxBodySize == 10 * 1024 * 1024

\* Decoded body lengths (String.length of resp.text()).
BodyLengths == {27, MaxBodySize, MaxBodySize + 1, 11 * 1024 * 1024}
\* UTF-8 bytes a character of the body takes per UTF-16 code unit: 1
\* (ASCII), 2 (U+0080..U+07FF, and each half of a surrogate pair), 3 (the
\* rest of the BMP).
BytesPerChar == {1, 2, 3}
\* The texts resp.text() resolves with: length characters of one width.
Bodies == [length : BodyLengths, bytesPerChar : BytesPerChar]
NoBody == [read |-> FALSE, length |-> 0, bytesPerChar |-> 0]

\* ASCII lower-casing of one piece of a Content-Type value.
LowerCtToken(t) == IF t = "; charset=UTF-8" THEN "; charset=utf-8" ELSE t

RECURSIVE LowerCt(_)
LowerCt(v) == IF v = <<>> THEN "" ELSE LowerCtToken(Head(v)) \o LowerCt(Tail(v))

\* The pieces with a character outside U+0020..U+007E.
NonPrintableCtTokens == {";\tcharset=utf-8"}

\* new Blob([body], { type }).type: the type in ASCII lower case, or the
\* empty string when it has a character outside U+0020..U+007E.
BlobType(v) ==
  IF \E i \in 1..Len(v) : v[i] \in NonPrintableCtTokens THEN "" ELSE LowerCt(v)

\* new Blob([body]).size: the length of body in UTF-8.
BlobSize(b) == b.length * b.bytesPerChar

\* Converter results: null, undefined, or a sequence of records with `data`.
MarkdownData == {"# Test", ""}
MarkdownResults ==
  {[kind |-> "null", items |-> <<>>], [kind |-> "undefined", items |-> <<>>]}
    \cup {[kind |-> "array", items |-> m] :
            m \in SeqsUpTo([data : MarkdownData], MaxMdLen)}
NoMarkdown == [kind |-> "none", items |-> <<>>]

\* What a rejected await carries: a DOMException or another Error, and its
\* name.
Failures == [dom : BOOLEAN, name : {"AbortError", "TimeoutError", "Error"}]
NoFailure == [at |-> "none", dom |-> FALSE, name |-> NoString]
\* Reading a property of undefined or null.
TypeError == [dom |-> FALSE, name |-> "TypeError"]

Requests ==
  {[hasUrl |-> FALSE, url |-> <<>>]}
    \cup {[hasUrl |-> TRUE, url |-> u] : u \in SeqsUpTo(UrlTokens, MaxUrlLen)}

(***************************************************************************)
(* Errors and responses.                                                   *)
(***************************************************************************)
HTTPException(status, message) ==
  [exc |-> "HTTPException", status |-> status, message |-> message]

\* Any thrown value that is not an HTTPException.
OtherError == [exc |-> "Error", status |-> 0, message |-> NoString]

NoJson == [error |-> NoString, status |-> 0]
NoResponse == [kind |-> "none", status |-> 0, contentType |-> NoString,
               cacheControl |-> NoString, text |-> NoString, json |-> NoJson]

\* Status codes with which the runtime's Response constructor accepts a
\* body: 200..599 without the null-body statuses.
NullBodyStatuses == {101, 204, 205, 304}
AcceptsBody(status) ==
  status >= 200 /\ status <= 599 /\ status \notin NullBodyStatuses

\* c.json(object, status): the response, or threw when the Response
\* constructor rejects the status.
json(object, status) ==
  IF AcceptsBody(status)
    THEN [threw |-> FALSE,
          res |-> [kind |-> "json", status |-> status, contentType |-> NoString,
                   cacheControl |-> NoString, text |-> NoString, json |-> object]]
    ELSE [threw |-> TRUE, res |-> NoResponse]

onErrorFixedStatusField(err) ==
  IF err.exc = "HTTPException"
    THEN json([error |-> err.message, status |-> 500], err.status)
    ELSE json([error |-> "Internal Server Error", status |-> 500], 500)

\* app.onError
onError(err) ==
  IF err.exc = "HTTPException"
    THEN json([error |-> err.message, status |-> err.status], err.status)
    ELSE json([error |-> "Internal Server Error", status |-> 500], 500)

\* What the route answers when the handler throws err: app.onError's
\* response; when app.onError itself throws, the error reaches the
\* enclosing middleware (logger, timing), whose throw is handed to
\* app.onError again, now as a plain error.
ErrorResponse(err) ==
  LET first == onError(err)
  IN IF first.threw THEN onError(OtherError).res ELSE first.res

textKeepsGivenContentType(content, headers) ==
  [kind |-> "text", status |-> 200, contentType |-> headers.contentType,
   cacheControl |-> headers.cacheControl, text |-> content, json |-> NoJson]

\* c.text(content, {headers}): status 200; the framework sets the text
\* Content-Type over the one given in headers, the other headers are kept.
text(content, headers) ==
  [kind |-> "text", status |-> 200, contentType |-> "text/plain; charset=UTF-8",
   cacheControl |-> headers.cacheControl, text |-> content, json |-> NoJson]

catchAbortByNameOnly(f) ==
  IF f.name = "AbortError"
    THEN HTTPException(504, "Request timeout")
    ELSE HTTPException(500, "Internal server error while processing request")

\* The catch block for a failure f that is not an HTTPException.
catch(f) ==
  IF f.dom /\ f.name = "AbortError"
    THEN HTTPException(504, "Request timeout")
    ELSE HTTPException(500, "Internal server error while processing request")

\* contentType.includes(pattern)
Includes(s, pattern) ==
  \E i \in 0..(Len(s) - Len(pattern)) : SubSeq(s, i + 1, i + Len(pattern)) = pattern

TextHtml == <<"text/", "html">>

isHtmlExactMatch(contentType) == contentType.present /\ contentType.value = TextHtml

\* !(!contentType || !contentType.includes("text/html"))
isHtml(contentType) ==
  /\ contentType.present
  /\ contentType.value # <<>>
  /\ Includes(contentType.value, TextHtml)

tooLargeAtLimit(length) == length >= MaxBodySize

\* body.length > 10 * 1024 * 1024
tooLarge(length) == length > MaxBodySize

conversionFailedNullOnly(md) == md.kind \in {"null", "undefined"}

\* !markdown || markdown.length === 0
conversionFailed(md) == md.kind \in {"null", "undefined"} \/ Len(md.items) = 0

contentLastElement(md) == md.items[Len(md.items)].data

\* markdown[0].data
content(md) == md.items[1].data

(***************************************************************************)
(* The request handler, one action per stretch of code between awaits.     *)
(***************************************************************************)
Init ==
  /\ pc = "idle"
  /\ req = [hasUrl |-> FALSE, url |-> <<>>]
  /\ resp = NoResp
  /\ body = NoBody
  /\ markdown = NoMarkdown
  /\ raised = NoFailure
  /\ response = NoResponse
  /\ responses = 0
  /\ fetchCalls = 0
  /\ textCalls = 0
  /\ aiCalls = 0
  /\ aiInput = [name |-> NoString, type |-> NoString, size |-> 0]

\* The route ends with response r.
Respond(r) ==
  /\ response' = r
  /\ responses' = responses + 1
  /\ pc' = "done"

\* A request arrives: parameter presence, URL validation, then fetch(urlParam).
Receive(r) ==
  /\ pc = "idle"
  /\ req' = r
  /\ IF missing(r)
       THEN /\ Respond(ErrorResponse(HTTPException(400, "URL parameter is required")))
            /\ UNCHANGED fetchCalls
     ELSE IF ~isValidUrl(r.url)
       THEN /\ Respond(ErrorResponse(HTTPException(400,
                  "Invalid URL format. Must be a valid HTTP or HTTPS URL")))
            /\ UNCHANGED fetchCalls
     ELSE /\ fetchCalls' = fetchCalls + 1
          /\ pc' = "fetch"
          /\ UNCHANGED <<response, responses>>
  /\ UNCHANGED <<resp, body, markdown, raised, textCalls, aiCalls, aiInput>>

\* fetch resolves with r: upstream status check, content-type gate, then
\* resp.text().
FetchResolves(r) ==
  /\ pc = "fetch"
  /\ resp' = r
  /\ IF ~Ok(r)
       THEN /\ Respond(ErrorResponse(HTTPException(r.status,
                  "Failed to fetch " \o Join(req.url) \o ": " \o r.statusText)))
            /\ UNCHANGED textCalls
     ELSE IF ~isHtml(r.contentType)
       THEN /\ Respond(ErrorResponse(HTTPException(400, "Only HTML content is supported")))
            /\ UNCHANGED textCalls
     ELSE /\ textCalls' = textCalls + 1
          /\ pc' = "text"
          /\ UNCHANGED <<response, responses>>
  /\ UNCHANGED <<req, body, markdown, raised, fetchCalls, aiCalls, aiInput>>

\* An await of the try block rejects with f at stage: the catch block.
Rejects(stage, f) ==
  /\ pc = stage
  /\ raised' = [at |-> stage, dom |-> f.dom, name |-> f.name]
  /\ Respond(ErrorResponse(catch(f)))
  /\ UNCHANGED <<req, resp, body, markdown, fetchCalls, textCalls, aiCalls, aiInput>>

FetchRejects(f) == Rejects("fetch", f)

\* resp.text() resolves with body b: size gate on its length in characters,
\* then c.env.AI.toMarkdown with a Blob of it.
TextResolves(b) ==
  /\ pc = "text"
  /\ body' = [read |-> TRUE, length |-> b.length, bytesPerChar |-> b.bytesPerChar]
  /\ IF tooLarge(b.length)
       THEN /\ Respond(ErrorResponse(HTTPException(413,
                  "Content too large. Maximum size is 10MB")))
            /\ UNCHANGED <<aiCalls, aiInput>>
     ELSE /\ aiCalls' = aiCalls + 1
          /\ aiInput' = [name |-> ParseURL(req.url).hostname \o ".html",
                         type |-> BlobType(resp.contentType.value), size |-> BlobSize(b)]
          /\ pc' = "toMarkdown"
          /\ UNCHANGED <<response, responses>>
  /\ UNCHANGED <<req, resp, markdown, raised, fetchCalls, textCalls>>

TextRejects(f) == Rejects("text", f)

\* toMarkdown resolves with md: result check, then the success response
\* (markdown[0].data of a result without element 0 throws inside the try
\* block).
ToMarkdownResolves(md) ==
  /\ pc = "toMarkdown"
  /\ markdown' = md
  /\ IF conversionFailed(md)
       THEN Respond(ErrorResponse(HTTPException(500, "Failed to convert HTML to Markdown")))
     ELSE IF Len(md.items) = 0
       THEN Respond(ErrorResponse(catch(TypeError)))
     ELSE Respond(text(content(md),
                         [contentType |-> "text/markdown; charset=utf-8",
                          cacheControl |-> "public, max-age=3600, s-maxage=86400"]))
  /\ UNCHANGED <<req, resp, body, raised, fetchCalls, textCalls, aiCalls, aiInput>>

ToMarkdownRejects(f) == Rejects("toMarkdown", f)

\* The request is over; the next one starts from nothing (no state is shared
\* between requests).
NextRequest ==
  /\ pc = "done"
  /\ pc' = "idle"
  /\ req' = [hasUrl |-> FALSE, url |-> <<>>]
  /\ resp' = NoResp
  /\ body' = NoBody
  /\ markdown' = NoMarkdown
  /\ raised' = NoFailure
  /\ response' = NoResponse
  /\ responses' = 0
  /\ fetchCalls' = 0
  /\ textCalls' = 0
  /\ aiCalls' = 0
  /\ aiInput' = [name |-> NoString, type |-> NoString, size |-> 0]

Next ==
  \/ pc = "idle" /\ \E r \in Requests : Receive(r)
  \/ pc = "fetch" /\ \E r \in FetchResponses : FetchResolves(r)
  \/ pc = "fetch" /\ \E f \in Failures : FetchRejects(f)
  \/ pc = "text" /\ \E b \in Bodies : TextResolves(b)
  \/ pc = "text" /\ \E f \in Failures : TextRejects(f)
  \/ pc = "toMarkdown" /\ \E md \in MarkdownResults : ToMarkdownResolves(md)
  \/ pc = "toMarkdown" /\ \E f \in Failures : ToMarkdownRejects(f)
  \/ NextRequest

Spec == Init /\ [][Next]_vars

(***************************************************************************)
(* Properties.                                                             *)
(***************************************************************************)
\* C1: when the Converter resolved with a sequence of at least one element,
\* the response has status 200 and its body is the data of element 0,
\* whatever the other elements are.
C1_BodyIsFirstElement ==
  (pc = "done" /\ markdown.kind = "array" /\ Len(markdown.items) >= 1)
    => /\ response.kind = "text"
       /\ response.status = 200
       /\ response.text = markdown.items[1].data

C1_Witness ==
  /\ pc = "done"
  /\ markdown.kind = "array"
  /\ Len(markdown.items) = 2
  /\ markdown.items[1].data # markdown.items[2].data
  /\ response.status = 200
  /\ response.text = "# Test"

\* C2: every 200 response carries Content-Type text/plain; charset=UTF-8 and
\* Cache-Control public, max-age=3600, s-maxage=86400, whatever content type
\* the upstream declared.
C2_SuccessHeaders ==
  response.status = 200
    => /\ response.contentType = "text/plain; charset=UTF-8"
       /\ response.cacheControl = "public, max-age=3600, s-maxage=86400"

C2_Witness ==
  /\ response.status = 200
  /\ aiInput.type = "text/html; charset=utf-8"
  /\ resp.contentType.value = <<"text/", "html", "; charset=UTF-8">>

\* C3: for every upstream response with ok = false, the response status is
\* the upstream status and the error is "Failed to fetch <url>: <status
\* text>".
C3_UpstreamStatusMirrored ==
  (pc = "done" /\ resp # NoResp /\ ~(resp.status \in 200..299))
    => /\ response.status = resp.status
       /\ response.json.error
            = "Failed to fetch " \o Join(req.url) \o ": " \o resp.statusText

\* C4: a non-empty url that does not parse, or parses with a scheme other
\* than http or https, is answered 400 "Invalid URL format. Must be a valid
\* HTTP or HTTPS URL" and the Fetcher is not invoked.
C4_InvalidUrlRejected ==
  (/\ req.hasUrl
   /\ req.url # <<>>
   /\ \/ ~ParseURL(req.url).ok
      \/ ParseURL(req.url).protocol \notin {"http:", "https:"})
    => /\ pc = "done"
       /\ response.status = 400
       /\ response.json.error = "Invalid URL format. Must be a valid HTTP or HTTPS URL"
       /\ fetchCalls = 0

C4_Witness ==
  /\ req.hasUrl
  /\ Join(req.url) = "ftp://example.com"
  /\ response.status = 400
  /\ fetchCalls = 0

\* C5: an absent or empty url is answered 400 with error "URL parameter is
\* required" and status field 400, never "Invalid URL format".
C5_MissingUrlRejected ==
  (pc = "done" /\ (~req.hasUrl \/ req.url = <<>>))
    => /\ response.status = 400
       /\ response.kind = "json"
       /\ response.json = [error |-> "URL parameter is required", status |-> 400]

C5_Witness ==
  /\ pc = "done"
  /\ req.hasUrl
  /\ req.url = <<>>
  /\ response.json.error = "URL parameter is required"

\* C6: an ok upstream response whose Content-Type is absent or lacks
\* text/html is answered 400 "Only HTML content is supported" without the
\* body being read; text/html followed by a charset suffix passes the gate.
C6_ContentTypeGate ==
  /\ (/\ resp.status \in 200..299
      /\ \/ ~resp.contentType.present
         \/ ~Includes(resp.contentType.value, <<"text/", "html">>))
       => /\ pc = "done"
          /\ response.status = 400
          /\ response.json.error = "Only HTML content is supported"
          /\ textCalls = 0
  /\ (/\ resp.status \in 200..299
      /\ resp.contentType.present
      /\ resp.contentType.value = <<"text/", "html", "; charset=UTF-8">>)
       => /\ textCalls = 1
          /\ response.json.error # "Only HTML content is supported"

C6_Witness ==
  /\ pc = "done"
  /\ resp.status = 200
  /\ resp.contentType.present
  /\ resp.contentType.value = <<"text/", "json">>
  /\ response.json.error = "Only HTML content is supported"

\* C7: once the body of an ok HTML response is read, the response is 413
\* "Content too large. Maximum size is 10MB" exactly when the body is longer
\* than 10,485,760 characters, whatever its size in bytes; a body of exactly
\* 10,485,760 characters reaches the Converter.
C7_SizeGate ==
  body.read
    => /\ (response.status = 413
             /\ response.json.error = "Content too large. Maximum size is 10MB")
          <=> body.length > 10485760
       /\ body.length <= 10485760 => aiCalls = 1
       /\ body.length > 10485760 => aiCalls = 0

C7_Witness ==
  /\ body.read
  /\ body.length = 10485760
  /\ body.bytesPerChar = 2
  /\ aiCalls = 1
  /\ aiInput.size = 20971520

\* C8: a Converter result that is null, undefined or an empty sequence is
\* answered 500 "Failed to convert HTML to Markdown".
C8_EmptyConversionRejected ==
  (pc = "done" /\ (markdown.kind \in {"null", "undefined"}
                     \/ (markdown.kind = "array" /\ markdown.items = <<>>)))
    => /\ response.status = 500
       /\ response.json = [error |-> "Failed to convert HTML to Markdown", status |-> 500]

C8_Witness ==
  /\ pc = "done"
  /\ markdown.kind = "array"
  /\ markdown.items = <<>>
  /\ response.status = 500

\* C9: a failure raised by the Fetcher call, the body read or the Converter
\* call is answered 504 "Request timeout" when it is a DOMException named
\* AbortError and 500 "Internal server error while processing request"
\* otherwise, at every one of the three; never "Internal Server Error".
C9_FailureClassification ==
  raised.at # "none"
    => /\ pc = "done"
       /\ response.kind = "json"
       /\ response.json.error # "Internal Server Error"
       /\ IF raised.dom /\ raised.name = "AbortError"
            THEN /\ response.status = 504
                 /\ response.json.error = "Request timeout"
            ELSE /\ response.status = 500
                 /\ response.json.error = "Internal server error while processing request"

C9_Witness ==
  /\ raised.at = "toMarkdown"
  /\ raised.dom
  /\ raised.name = "AbortError"
  /\ response.status = 504

\* C10: every finished request has exactly one response, either the 200
\* text response or a JSON {error, status} body whose status field is the
\* HTTP status, for every upstream status; an unfinished one has none.
C10_ResponseShape ==
  /\ pc # "done" => responses = 0 /\ response = NoResponse
  /\ pc = "done"
       => /\ responses = 1
          /\ \/ response.kind = "text" /\ response.status = 200
             \/ /\ response.kind = "json"
                /\ response.status # 200
                /\ response.status \in 200..599
                /\ response.json.error # NoString
                /\ response.json.status = response.status

C10_Witness ==
  /\ pc = "done"
  /\ resp.status = 304
  /\ response.kind = "json"
  /\ response.json.status = response.status

\* The order of the stages: each collaborator is called at most once, the
\* Fetcher only for a present, valid http(s) url, the body read only for an
\* ok response that passed the content-type gate, the Converter only for a
\* body that passed the size gate, and the handler waits on a call only
\* while the later ones have not been made.
C11_StageOrder ==
  /\ fetchCalls <= 1 /\ textCalls <= 1 /\ aiCalls <= 1
  /\ fetchCalls = 1
       => /\ req.hasUrl /\ req.url # <<>>
          /\ ParseURL(req.url).ok
          /\ ParseURL(req.url).protocol \in {"http:", "https:"}
  /\ resp # NoResp => fetchCalls = 1
  /\ textCalls = 1
       => /\ fetchCalls = 1
          /\ resp.status \in 200..299
          /\ resp.contentType.present
          /\ Includes(resp.contentType.value, <<"text/", "html">>)
  /\ body.read => textCalls = 1
  /\ aiCalls = 1 => textCalls = 1 /\ body.read /\ body.length <= 10485760
  /\ markdown # NoMarkdown => aiCalls = 1
  /\ pc = "idle" => fetchCalls = 0
  /\ pc = "fetch" => fetchCalls = 1 /\ textCalls = 0
  /\ pc = "text" => textCalls = 1 /\ aiCalls = 0 /\ ~body.read
  /\ pc = "toMarkdown" => aiCalls = 1 /\ markdown = NoMarkdown
  /\ raised.at = "fetch" => fetchCalls = 1 /\ textCalls = 0
  /\ raised.at = "text" => textCalls = 1 /\ aiCalls = 0
  /\ raised.at = "toMarkdown" => aiCalls = 1 /\ markdown = NoMarkdown

\* The error of a failure raised by a collaborator.
C11_RaisedError ==
  IF raised.dom /\ raised.name = "AbortError"
    THEN [error |-> "Request timeout", status |-> 504]
    ELSE [error |-> "Internal server error while processing request", status |-> 500]

\* The error of the earliest stage that failed in a request that ended in
\* an error, stage by stage in pipeline order.
C11_FirstFailure ==
  IF ~req.hasUrl \/ req.url = <<>>
    THEN [error |-> "URL parameter is required", status |-> 400]
  ELSE IF ~ParseURL(req.url).ok \/ ParseURL(req.url).protocol \notin {"http:", "https:"}
    THEN [error |-> "Invalid URL format. Must be a valid HTTP or HTTPS URL",
          status |-> 400]
  ELSE IF raised.at = "fetch" THEN C11_RaisedError
  ELSE IF ~(resp.status \in 200..299)
    THEN [error |-> "Failed to fetch " \o Join(req.url) \o ": " \o resp.statusText,
          status |-> resp.status]
  ELSE IF ~resp.contentType.present
            \/ ~Includes(resp.contentType.value, <<"text/", "html">>)
    THEN [error |-> "Only HTML content is supported", status |-> 400]
  ELSE IF raised.at = "text" THEN C11_RaisedError
  ELSE IF body.length > 10485760
    THEN [error |-> "Content too large. Maximum size is 10MB", status |-> 413]
  ELSE IF raised.at = "toMarkdown" THEN C11_RaisedError
  ELSE [error |-> "Failed to convert HTML to Markdown", status |-> 500]

\* C11: the stages run in the order parameter presence, URL validation,
\* fetch, content-type gate, body read and size gate, conversion; each
\* collaborator is called at most once and only after the stages before it
\* passed; and a request that ends in an error reports the error of the
\* earliest failing stage, with that stage's status.
C11_FirstFailureWins ==
  /\ C11_StageOrder
  /\ (pc = "done" /\ response.kind = "json")
       => /\ response.json = C11_FirstFailure
          /\ response.status = C11_FirstFailure.status

\* A stage is never gone back to and no call is repeated: within a request
\* the handler only moves forward and the call counts only grow.
C11_NoRetry ==
  [][pc' # "idle"
       => /\ fetchCalls' >= fetchCalls /\ textCalls' >= textCalls /\ aiCalls' >= aiCalls
          /\ <<pc, pc'>> \in {<<"idle", "fetch">>, <<"idle", "done">>,
                              <<"fetch", "text">>, <<"fetch", "done">>,
                              <<"text", "toMarkdown">>, <<"text", "done">>,
                              <<"toMarkdown", "done">>}]_vars

====
